---- MODULE Spec2Model ----
(***************************************************************************)
(* Directional focus navigation of a-bevy-of-us.                           *)
(*                                                                         *)
(* ButtonNavigationBuilder (src/plugins/ui/button_builder.rs) collects     *)
(* button entities and, on build, writes one NavigationNeighbors entry per *)
(* button into the NavigationGraph resource and optionally elects the      *)
(* first button as focused.  The NavigationGraph itself                    *)
(* (plugins/ui/navigation.rs) and the navigation-input system are not part *)
(* of the sources at hand; they are modelled from the specification        *)
(* (sections 4.2 and 6) and marked so in the comments.                     *)
(*                                                                         *)
(* Entities are opaque handles, modelled as positive integers; None is 0.  *)
(* Marker components inserted through Commands are modelled as two sets of *)
(* entities (Focusable, Focused); the command queue of a system is applied *)
(* when the system returns, which is inside the action that models it.     *)
(***************************************************************************)
EXTENDS Integers, Sequences, FiniteSets, TLC

\* ---- bounds of the model ----
MaxHandles == 2
MaxColumns == 1
MaxBuilds == 2
MaxGridHandles == 7
MaxGridColumns == 3
MaxSetups == 2

\* Option::None for an Option<Entity>
None == 0

Handles == 1..MaxHandles
GridHandles == 1..MaxGridHandles

Directions == {"up", "down", "left", "right"}

VARIABLES
    neighbors,      \* NavigationGraph: adjacency table, entity -> NavigationNeighbors
    focused,        \* NavigationGraph: the focused entity or None
    focusableMark,  \* entities carrying the Focusable marker component
    focusedMark,    \* entities carrying the Focused marker component
    builder,        \* the live ButtonNavigationBuilder, or NoBuilder
    panicked,       \* the process aborted on a panic
    builds,         \* number of builders constructed so far (bounded by MaxBuilds)
    last,           \* the last operation, its arguments, result and issued instructions
    pre,            \* graph and markers as they were before the last operation
    built,          \* layout and buttons of the build that populated the graph, or NoBuild
    run,            \* the current run of consecutive move_focus calls in one direction
    menu            \* main-menu screen: entities spawned, those alive, its buttons, setups run

vars == <<neighbors, focused, focusableMark, focusedMark, builder, panicked, builds,
          last, pre, built, run, menu>>

\* ---- NavigationLayout ----
Vertical == [kind |-> "Vertical"]
Horizontal == [kind |-> "Horizontal"]
Grid(columns) == [kind |-> "Grid", columns |-> columns]

IsGrid(layout) == layout.kind = "Grid"

\* ---- NavigationNeighbors (builder-style record of four Option<Entity>) ----
NewNeighbors == [up |-> None, down |-> None, left |-> None, right |-> None]
WithUp(nb, e) == [nb EXCEPT !.up = e]
WithDown(nb, e) == [nb EXCEPT !.down = e]
WithLeft(nb, e) == [nb EXCEPT !.left = e]
WithRight(nb, e) == [nb EXCEPT !.right = e]

\* self.buttons[i] with the 0-based index of the code
At(buttons, i) == buttons[i + 1]

\* ---- the three adjacency algorithms of build ----
\* a variant that wraps around at both ends of the list
VerticalNeighborsWrap(buttons, i) ==
    WithDown(WithUp(NewNeighbors,
                    IF i > 0 THEN At(buttons, i - 1) ELSE At(buttons, Len(buttons) - 1)),
             IF i < Len(buttons) - 1 THEN At(buttons, i + 1) ELSE At(buttons, 0))

\* a variant whose down neighbour skips one element
VerticalNeighborsSkip(buttons, i) ==
    WithDown(WithUp(NewNeighbors,
                    IF i > 0 THEN At(buttons, i - 1) ELSE None),
             IF i < Len(buttons) - 2 THEN At(buttons, i + 2) ELSE None)

VerticalNeighbors(buttons, i) ==
    WithDown(WithUp(NewNeighbors,
                    IF i > 0 THEN At(buttons, i - 1) ELSE None),
             IF i < Len(buttons) - 1 THEN At(buttons, i + 1) ELSE None)

\* a variant with the two directions exchanged
HorizontalNeighborsSwapped(buttons, i) ==
    WithLeft(WithRight(NewNeighbors,
                       IF i > 0 THEN At(buttons, i - 1) ELSE None),
             IF i < Len(buttons) - 1 THEN At(buttons, i + 1) ELSE None)

HorizontalNeighbors(buttons, i) ==
    WithRight(WithLeft(NewNeighbors,
                       IF i > 0 THEN At(buttons, i - 1) ELSE None),
              IF i < Len(buttons) - 1 THEN At(buttons, i + 1) ELSE None)

GridUp(buttons, i, columns) ==
    LET row == i \div columns IN
    IF row > 0
    THEN LET up_idx == i - columns IN
         IF up_idx < Len(buttons) THEN At(buttons, up_idx) ELSE None
    ELSE None

\* a variant that clamps the element below to the last element of a short row
GridDownClamped(buttons, i, columns) ==
    LET row == i \div columns IN
    IF (row + 1) * columns < Len(buttons)
    THEN LET down_idx == i + columns IN
         IF down_idx < Len(buttons) THEN At(buttons, down_idx)
         ELSE At(buttons, Len(buttons) - 1)
    ELSE None

GridDown(buttons, i, columns) ==
    LET row == i \div columns IN
    IF (row + 1) * columns < Len(buttons)
    THEN LET down_idx == i + columns IN
         IF down_idx < Len(buttons) THEN At(buttons, down_idx) ELSE None
    ELSE None

\* a variant that tests the index instead of the column
GridLeftNoColumnCheck(buttons, i, columns) ==
    IF i > 0 THEN At(buttons, i - 1) ELSE None

GridLeft(buttons, i, columns) ==
    LET col == i % columns IN
    IF col > 0 THEN At(buttons, i - 1) ELSE None

\* a variant whose bound on the next index is off by one
GridRightOffByOne(buttons, i, columns) ==
    LET col == i % columns IN
    IF col < columns - 1 /\ i + 2 < Len(buttons) THEN At(buttons, i + 1) ELSE None

GridRight(buttons, i, columns) ==
    LET col == i % columns IN
    IF col < columns - 1 /\ i + 1 < Len(buttons) THEN At(buttons, i + 1) ELSE None

GridNeighbors(buttons, i, columns) ==
    WithRight(WithLeft(WithDown(WithUp(NewNeighbors,
                                       GridUp(buttons, i, columns)),
                                GridDown(buttons, i, columns)),
                       GridLeft(buttons, i, columns)),
              GridRight(buttons, i, columns))

LayoutNeighbors(layout, buttons, i) ==
    IF layout.kind = "Vertical" THEN VerticalNeighbors(buttons, i)
    ELSE IF layout.kind = "Horizontal" THEN HorizontalNeighbors(buttons, i)
    ELSE GridNeighbors(buttons, i, layout.columns)

\* `i / columns` with columns = 0 panics (integer division by zero) in the
\* first iteration of the Grid loop.
BuildPanics(b) ==
    Len(b.buttons) > 0 /\ IsGrid(b.layout) /\ b.layout.columns = 0

\* ---- the instructions a build issues, in program order ----
FocusableInstrs(buttons) ==
    [k \in 1..Len(buttons) |-> [op |-> "insert_focusable", entity |-> buttons[k]]]

RegisterInstrs(layout, buttons) ==
    [k \in 1..Len(buttons) |->
        [op |-> "register_button", entity |-> buttons[k],
         nb |-> LayoutNeighbors(layout, buttons, k - 1)]]

\* a variant that elects the last button instead of the first
InitialFocusInstrsLast(buttons, set_initial_focus) ==
    IF set_initial_focus /\ Len(buttons) > 0
    THEN << [op |-> "insert_focused", entity |-> buttons[Len(buttons)]],
            [op |-> "set_focus", entity |-> buttons[Len(buttons)]] >>
    ELSE << >>

InitialFocusInstrs(buttons, set_initial_focus) ==
    IF set_initial_focus /\ Len(buttons) > 0
    THEN << [op |-> "insert_focused", entity |-> buttons[1]],
            [op |-> "set_focus", entity |-> buttons[1]] >>
    ELSE << >>

\* a variant without the early return, electing buttons.first() or None
BuildInstrsNoEarlyReturn(b, set_initial_focus) ==
    IF BuildPanics(b) THEN FocusableInstrs(b.buttons)
    ELSE FocusableInstrs(b.buttons)
         \o RegisterInstrs(b.layout, b.buttons)
         \o (IF set_initial_focus
             THEN << [op |-> "set_focus",
                      entity |-> IF Len(b.buttons) > 0 THEN b.buttons[1] ELSE None] >>
             ELSE << >>)

BuildInstrs(b, set_initial_focus) ==
    IF Len(b.buttons) = 0 THEN << >>
    ELSE IF BuildPanics(b) THEN FocusableInstrs(b.buttons)
    ELSE FocusableInstrs(b.buttons)
         \o RegisterInstrs(b.layout, b.buttons)
         \o InitialFocusInstrs(b.buttons, set_initial_focus)

\* ---- NavigationGraph operations (modelled from the specification, 4.2) ----
EmptyTable == [e \in {} |-> NewNeighbors]

GraphRegister(table, e, nb) ==
    [x \in (DOMAIN table) \cup {e} |-> IF x = e THEN nb ELSE table[x]]

\* neighborsOf: the registered NavigationNeighbors, or Unknown
Unknown == [unknown |-> TRUE]

NeighborsOf(table, e) ==
    IF e \in DOMAIN table THEN table[e] ELSE Unknown

\* a variant that steps onto any registered neighbour when dir has none
MoveTargetAnyDirection(table, foc, dir) ==
    IF foc = None THEN None
    ELSE IF foc \notin DOMAIN table THEN None
    ELSE IF table[foc][dir] # None THEN table[foc][dir]
    ELSE IF table[foc].up # None THEN table[foc].up
    ELSE table[foc].down

\* move_focus: the neighbour focus moves to, or None for "no movement"
MoveTarget(table, foc, dir) ==
    IF foc = None THEN None
    ELSE IF foc \notin DOMAIN table THEN None
    ELSE table[foc][dir]

\* ---- the world a system acts on: graph plus marker components ----
World == [neighbors |-> neighbors, focused |-> focused,
          focusableMark |-> focusableMark, focusedMark |-> focusedMark]

Exec(w, instr) ==
    IF instr.op = "insert_focusable"
    THEN [w EXCEPT !.focusableMark = @ \cup {instr.entity}]
    ELSE IF instr.op = "register_button"
    THEN [w EXCEPT !.neighbors = GraphRegister(@, instr.entity, instr.nb)]
    ELSE IF instr.op = "insert_focused"
    THEN [w EXCEPT !.focusedMark = @ \cup {instr.entity}]
    ELSE [w EXCEPT !.focused = instr.entity]

RECURSIVE ExecAll(_, _)
ExecAll(w, instrs) ==
    IF instrs = << >> THEN w
    ELSE ExecAll(Exec(w, Head(instrs)), Tail(instrs))

NoBuilder == [kind |-> "NoBuilder"]

SeqRange(s) == {s[k] : k \in 1..Len(s)}

\* ---- history of the run of directional moves (observation only) ----
NoBuild == [kind |-> "NoBuild"]

\* With n registered entries a run is told apart up to n calls: no run moves
\* focus more often than that.
RunCap(table) == Cardinality(DOMAIN table)

\* No directional move since the last other operation.  fromBuild: the last
\* other operation was a build that elected initial focus.
FreshRun(fromBuild) ==
    [dir |-> "none", calls |-> 0, moved |-> 0, blocked |-> FALSE,
     fromBuild |-> fromBuild, afterDowns |-> -1]

\* calls: consecutive move_focus calls in direction dir (saturating at RunCap);
\* moved: how many of them moved focus; blocked: one of them returned None;
\* afterDowns: the number of "down" calls of the run just before this one when
\* that run began at a build electing initial focus, else -1.
ExtendRun(r, table, dir, target) ==
    LET same == r.dir \in {dir, "none"}
        hit == IF target # None THEN 1 ELSE 0
        cap == RunCap(table)
    IN IF same
       THEN [dir |-> dir,
             calls |-> IF r.calls < cap THEN r.calls + 1 ELSE r.calls,
             moved |-> IF r.moved < cap THEN r.moved + hit ELSE r.moved,
             blocked |-> r.blocked \/ target = None,
             fromBuild |-> r.fromBuild,
             afterDowns |-> r.afterDowns]
       ELSE [dir |-> dir, calls |-> IF cap > 0 THEN 1 ELSE 0, moved |-> hit,
             blocked |-> target = None, fromBuild |-> FALSE,
             afterDowns |-> IF r.fromBuild /\ r.dir = "down" THEN r.calls ELSE -1]

\* ---- actions ----
InitGraph ==
    /\ neighbors = EmptyTable
    /\ focused = None
    /\ focusableMark = {}
    /\ focusedMark = {}
    /\ panicked = FALSE
    /\ last = [op |-> "init"]
    /\ pre = [neighbors |-> EmptyTable, focused |-> None,
              focusableMark |-> {}, focusedMark |-> {}]
    /\ built = NoBuild
    /\ run = FreshRun(FALSE)
    /\ menu = [spawned |-> 0, alive |-> {}, buttons |-> << >>, setups |-> 0]

Init ==
    /\ InitGraph
    /\ builder = NoBuilder
    /\ builds = 0

\* a variant of clear that empties the table and keeps the focused field
ClearKeepsFocus ==
    /\ ~panicked
    /\ builder = NoBuilder
    /\ neighbors' = EmptyTable
    /\ focused' = focused
    /\ last' = [op |-> "clear"]
    /\ pre' = World
    /\ built' = NoBuild
    /\ run' = FreshRun(FALSE)
    /\ UNCHANGED <<focusableMark, focusedMark, builder, panicked, builds, menu>>

\* NavigationGraph::clear, as called first thing by a screen-setup system
Clear ==
    /\ ~panicked
    /\ builder = NoBuilder
    /\ neighbors' = EmptyTable
    /\ focused' = None
    /\ last' = [op |-> "clear"]
    /\ pre' = World
    /\ built' = NoBuild
    /\ run' = FreshRun(FALSE)
    /\ UNCHANGED <<focusableMark, focusedMark, builder, panicked, builds, menu>>

\* ButtonNavigationBuilder::new
New(layout) ==
    /\ ~panicked
    /\ builder = NoBuilder
    /\ builds < MaxBuilds
    /\ builder' = [kind |-> "Builder", layout |-> layout, buttons |-> << >>]
    /\ builds' = builds + 1
    /\ last' = [op |-> "new", layout |-> layout]
    /\ pre' = World
    /\ run' = FreshRun(FALSE)
    /\ UNCHANGED <<neighbors, focused, focusableMark, focusedMark, panicked, built, menu>>

\* Entities handed to a builder so far.  They come from spawn calls, which
\* allocate entity ids in increasing order: 1..Cardinality(Spawned).
Spawned == focusableMark \cup (IF builder = NoBuilder THEN {} ELSE SeqRange(builder.buttons))

\* ButtonNavigationBuilder::add_button, with a button spawned just now or
\* one spawned earlier that this builder does not hold yet
AddButton(e) ==
    /\ ~panicked
    /\ builder # NoBuilder
    /\ e \in Spawned \cup {Cardinality(Spawned) + 1}
    /\ e \notin SeqRange(builder.buttons)
    /\ builder' = [builder EXCEPT !.buttons = Append(@, e)]
    /\ last' = [op |-> "add_button", entity |-> e]
    /\ pre' = World
    /\ UNCHANGED <<neighbors, focused, focusableMark, focusedMark, panicked, builds,
                   built, run, menu>>

\* ButtonNavigationBuilder::build (consumes the builder).  The instructions
\* are executed in program order; a panic aborts the process before the
\* queued marker commands are applied.
Build(set_initial_focus) ==
    /\ ~panicked
    /\ builder # NoBuilder
    /\ LET instrs == BuildInstrs(builder, set_initial_focus)
           w == IF BuildPanics(builder) THEN World ELSE ExecAll(World, instrs)
       IN /\ neighbors' = w.neighbors
          /\ focused' = w.focused
          /\ focusableMark' = w.focusableMark
          /\ focusedMark' = w.focusedMark
          /\ panicked' = BuildPanics(builder)
          /\ last' = [op |-> "build", layout |-> builder.layout,
                      buttons |-> builder.buttons,
                      set_initial_focus |-> set_initial_focus,
                      instrs |-> instrs]
          /\ built' = IF instrs = << >> \/ BuildPanics(builder) THEN built
                      ELSE [kind |-> "Build", layout |-> builder.layout,
                            buttons |-> builder.buttons,
                            cleared |-> neighbors = EmptyTable]
          /\ run' = FreshRun(set_initial_focus /\ instrs # << >> /\ ~BuildPanics(builder))
    /\ builder' = NoBuilder
    /\ pre' = World
    /\ UNCHANGED <<builds, menu>>

\* a variant of set_focus that ignores a handle without an adjacency entry
SetFocusValidated(e) ==
    /\ ~panicked
    /\ builder = NoBuilder
    /\ focused' = IF e \in DOMAIN neighbors THEN e ELSE focused
    /\ focusedMark' = IF e \in DOMAIN neighbors
                      THEN (focusedMark \ {focused}) \cup {e}
                      ELSE focusedMark
    /\ last' = [op |-> "set_focus", entity |-> e]
    /\ pre' = World
    /\ run' = FreshRun(FALSE)
    /\ UNCHANGED <<neighbors, focusableMark, builder, panicked, builds, built, menu>>

\* A caller setting focus directly: NavigationGraph::set_focus, with the
\* Focused marker moved to the new element (specification, section 6).
SetFocus(e) ==
    /\ ~panicked
    /\ builder = NoBuilder
    /\ focused' = e
    /\ focusedMark' = (focusedMark \ {focused}) \cup {e}
    /\ last' = [op |-> "set_focus", entity |-> e]
    /\ pre' = World
    /\ run' = FreshRun(FALSE)
    /\ UNCHANGED <<neighbors, focusableMark, builder, panicked, builds, built, menu>>

\* One directional input: NavigationGraph::move_focus, then the Focused
\* marker follows the returned neighbour (specification, sections 2 and 6).
MoveFocus(dir) ==
    /\ ~panicked
    /\ builder = NoBuilder
    /\ LET target == MoveTarget(neighbors, focused, dir) IN
          /\ focused' = IF target # None THEN target ELSE focused
          /\ focusedMark' = IF target # None
                            THEN (focusedMark \ {focused}) \cup {target}
                            ELSE focusedMark
          /\ last' = [op |-> "move_focus", direction |-> dir, result |-> target]
          /\ run' = ExtendRun(run, neighbors, dir, target)
    /\ pre' = World
    /\ UNCHANGED <<neighbors, focusableMark, builder, panicked, builds, built, menu>>

\* ---- Spec: screen setups over a small set of entities ----
Layouts == {Vertical, Horizontal} \cup {Grid(c) : c \in 0..MaxColumns}

Next ==
    \/ Clear
    \/ \E layout \in Layouts : New(layout)
    \/ \E e \in Handles : AddButton(e)
    \/ \E f \in BOOLEAN : Build(f)
    \/ \E d \in Directions : MoveFocus(d)

Spec == Init /\ [][Next]_vars

\* ---- SpecLayout: one build on a cleared graph, then focus operations ----
\* The builder is drawn after clear(), new(layout) and n add_button calls
\* with n distinct entities; the builder only copies and compares entities,
\* so they are named 1..n in display order.
LayoutShapes == {Vertical, Horizontal} \cup {Grid(c) : c \in 1..MaxGridColumns}

DisplayOrder(n) == [k \in 1..n |-> k]

InitLayout ==
    /\ InitGraph
    /\ builds = 1
    /\ \E layout \in LayoutShapes, n \in 0..MaxGridHandles :
          builder = [kind |-> "Builder", layout |-> layout, buttons |-> DisplayOrder(n)]

NextLayout ==
    \/ \E f \in BOOLEAN : Build(f)
    \/ \E d \in Directions : MoveFocus(d)
    \/ \E e \in GridHandles : SetFocus(e)
    \/ Clear

SpecLayout == InitLayout /\ [][NextLayout]_vars

\* ---- SpecMenu: the main-menu screen set up and torn down repeatedly ----
\* setup_main_menu spawns, in call order: camera, root container, title,
\* play button and its label, settings button and its label, quit button and
\* its label.  Spawn hands out entities never used before.
MenuEntities(s) == (s + 1)..(s + 9)

\* play, settings, quit: the add_button calls in display order
MenuButtons(s) == << s + 4, s + 6, s + 8 >>

MenuBuilder(s) == [kind |-> "Builder", layout |-> Vertical, buttons |-> MenuButtons(s)]

\* nav_graph.clear() applied to a world
ClearedWorld(w) == [w EXCEPT !.neighbors = EmptyTable, !.focused = None]

\* the state a run of setup_main_menu leaves: it found graph w0 for its
\* builder and issued instrs
SetupResult(w0, instrs) ==
    LET w == ExecAll(w0, instrs)
        s == menu.spawned
    IN /\ neighbors' = w.neighbors
       /\ focused' = w.focused
       /\ focusableMark' = w.focusableMark
       /\ focusedMark' = w.focusedMark
       /\ menu' = [spawned |-> s + Cardinality(MenuEntities(s)),
                   alive |-> menu.alive \cup MenuEntities(s),
                   buttons |-> MenuButtons(s),
                   setups |-> menu.setups + 1]
       /\ last' = [op |-> "setup_main_menu", base |-> s,
                   buttons |-> MenuButtons(s), instrs |-> instrs]
       /\ pre' = World
       /\ built' = [kind |-> "Build", layout |-> Vertical, buttons |-> MenuButtons(s),
                    cleared |-> w0.neighbors = EmptyTable]
       /\ run' = FreshRun(\E k \in 1..Len(instrs) : instrs[k].op = "set_focus")
       /\ UNCHANGED <<builder, panicked, builds>>

\* a variant of the setup system without nav_graph.clear()
SetupMainMenuNoClear ==
    /\ ~panicked
    /\ builder = NoBuilder
    /\ menu.setups < MaxSetups
    /\ SetupResult(World, BuildInstrs(MenuBuilder(menu.spawned), TRUE))

\* a variant of the setup system that builds without initial focus
SetupMainMenuNoFocus ==
    /\ ~panicked
    /\ builder = NoBuilder
    /\ menu.setups < MaxSetups
    /\ SetupResult(ClearedWorld(World), BuildInstrs(MenuBuilder(menu.spawned), FALSE))

\* setup_main_menu: clear, new(Vertical), three add_button, build(.., true),
\* all inside one run of the system
SetupMainMenu ==
    /\ ~panicked
    /\ builder = NoBuilder
    /\ menu.setups < MaxSetups
    /\ SetupResult(ClearedWorld(World), BuildInstrs(MenuBuilder(menu.spawned), TRUE))

\* cleanup_main_menu: despawn every entity tagged OnMainMenuScreen (camera and
\* root container) together with its children; their components go with them.
\* The NavigationGraph is not touched.
CleanupMainMenu ==
    /\ ~panicked
    /\ builder = NoBuilder
    /\ menu' = [menu EXCEPT !.alive = {}]
    /\ focusableMark' = focusableMark \ menu.alive
    /\ focusedMark' = focusedMark \ menu.alive
    /\ last' = [op |-> "cleanup_main_menu"]
    /\ pre' = World
    /\ run' = FreshRun(FALSE)
    /\ UNCHANGED <<neighbors, focused, builder, panicked, builds, built>>

NextMenu ==
    \/ SetupMainMenu
    \/ CleanupMainMenu
    \/ \E d \in Directions : MoveFocus(d)

SpecMenu == Init /\ [][NextMenu]_vars

\* ======================= claims =======================

\* the last operation was a completed build of a non-empty sequence
BuildDone == last.op = "build" /\ Len(last.buttons) > 0 /\ ~panicked

\* ---- C1 ----
\* C1: after a Grid{columns = c} build, c >= 1, of n >= 1 distinct handles
\* h[0..n), every h[i] has left = h[i-1] if col > 0, right = h[i+1] if
\* col < c-1 and i+1 < n, up = h[i-c] if row > 0, down = h[i+c] if i+c < n,
\* and none otherwise (row = i div c, col = i mod c).
C1_Expected(h, i, c) ==
    LET n == Len(h)
        row == i \div c
        col == i % c
    IN [up |-> IF row > 0 THEN At(h, i - c) ELSE None,
        down |-> IF i + c < n THEN At(h, i + c) ELSE None,
        left |-> IF col > 0 THEN At(h, i - 1) ELSE None,
        right |-> IF col < c - 1 /\ i + 1 < n THEN At(h, i + 1) ELSE None]

C1_GridAdjacency ==
    (BuildDone /\ IsGrid(last.layout) /\ last.layout.columns >= 1) =>
        \A i \in 0..(Len(last.buttons) - 1) :
            NeighborsOf(neighbors, At(last.buttons, i))
                = C1_Expected(last.buttons, i, last.layout.columns)

\* columns = 3, seven elements: h6 has up = h3 only; h2 has no right, down = h5
C1_Witness ==
    /\ BuildDone
    /\ last.layout = Grid(3)
    /\ Len(last.buttons) = 7
    /\ pre.neighbors = EmptyTable
    /\ neighbors[At(last.buttons, 6)]
         = [up |-> At(last.buttons, 3), down |-> None, left |-> None, right |-> None]
    /\ neighbors[At(last.buttons, 2)].right = None
    /\ neighbors[At(last.buttons, 2)].down = At(last.buttons, 5)

\* ---- C2 ----
\* C2: after a Vertical build of n > 0 distinct handles, h[i].up = h[i-1] for
\* i > 0, h[i].down = h[i+1] for i < n-1, none otherwise, left and right none;
\* after a Horizontal build the same with left/right for up/down.
C2_ListAdjacency ==
    BuildDone =>
        \A i \in 0..(Len(last.buttons) - 1) :
            LET h == last.buttons
                n == Len(h)
                prev == IF i > 0 THEN At(h, i - 1) ELSE None
                next == IF i < n - 1 THEN At(h, i + 1) ELSE None
                nb == NeighborsOf(neighbors, At(h, i))
            IN /\ last.layout = Vertical =>
                    nb = [up |-> prev, down |-> next, left |-> None, right |-> None]
               /\ last.layout = Horizontal =>
                    nb = [up |-> None, down |-> None, left |-> prev, right |-> next]

C2_Witness ==
    /\ BuildDone
    /\ last.layout = Horizontal
    /\ Len(last.buttons) = 3
    /\ neighbors[At(last.buttons, 1)].left = At(last.buttons, 0)
    /\ neighbors[At(last.buttons, 1)].right = At(last.buttons, 2)

\* ---- C3 ----
\* C3: a grid layout with columns = 0 is rejected when the builder is
\* constructed: no builder with a zero-column grid ever exists, no build
\* under such a layout issues an instruction, and no division by zero occurs.
ZeroColumns(layout) == IsGrid(layout) /\ layout.columns = 0

C3_ZeroColumnsRejected ==
    /\ builder # NoBuilder => ~ZeroColumns(builder.layout)
    /\ ~panicked
    /\ (last.op = "build" /\ ZeroColumns(last.layout)) => last.instrs = << >>

\* ---- C4 ----
\* C4: at most one element carries the Focused marker, and whenever the
\* focused field names an element the marker is on exactly that element.
C4_SingleFocusedMarker ==
    /\ Cardinality(focusedMark) <= 1
    /\ focused # None => focusedMark = {focused}

\* ---- C5 ----
\* C5: move_focus(direction) with a current focus whose registered neighbours
\* have one in that direction sets focused to exactly that neighbour and
\* returns it; otherwise focused is unchanged and the result is None.
C5_MoveFocus ==
    last.op = "move_focus" =>
        LET f == pre.focused
            d == last.direction
            has == /\ f # None
                   /\ NeighborsOf(pre.neighbors, f) # Unknown
                   /\ pre.neighbors[f][d] # None
        IN /\ neighbors = pre.neighbors
           /\ IF has
              THEN focused = pre.neighbors[f][d] /\ last.result = pre.neighbors[f][d]
              ELSE focused = pre.focused /\ last.result = None

\* a move that changed focus, in a graph where another direction is a boundary
C5_Witness ==
    /\ last.op = "move_focus"
    /\ last.result # None
    /\ focused = last.result
    /\ focused # pre.focused
    /\ \E d \in Directions : pre.neighbors[pre.focused][d] = None

\* ---- C6 ----
\* C6: build on a builder without elements changes neither the adjacency
\* table nor the focused field nor any marker, issues no instruction and
\* raises no error, for every layout and either value of set_initial_focus.
C6_EmptyBuildNoOp ==
    (last.op = "build" /\ last.buttons = << >>) =>
        /\ neighbors = pre.neighbors
        /\ focused = pre.focused
        /\ focusableMark = pre.focusableMark
        /\ focusedMark = pre.focusedMark
        /\ last.instrs = << >>
        /\ ~panicked

\* an empty Grid build asking for initial focus on a populated, focused graph
C6_Witness ==
    /\ last.op = "build"
    /\ last.buttons = << >>
    /\ IsGrid(last.layout)
    /\ last.set_initial_focus
    /\ DOMAIN neighbors # {}
    /\ focused # None

\* ---- C7 ----
\* C7: after build of a non-empty sequence with set_initial_focus the focused
\* field is the first handle added, which carries the Focused marker, and
\* set_focus is issued after every element was registered; without
\* set_initial_focus the focused field is what it was before the build.
ValidLayout(layout) == IsGrid(layout) => layout.columns >= 1

C7_InitialFocus ==
    (last.op = "build" /\ Len(last.buttons) > 0 /\ ValidLayout(last.layout)) =>
        LET ins == last.instrs
            first == last.buttons[1]
        IN IF last.set_initial_focus
           THEN /\ focused = first
                /\ first \in focusedMark
                /\ \E k \in 1..Len(ins) :
                      /\ ins[k].op = "set_focus"
                      /\ ins[k].entity = first
                      /\ \A e \in SeqRange(last.buttons) :
                            \E j \in 1..(k - 1) :
                               ins[j].op = "register_button" /\ ins[j].entity = e
                      /\ \A j \in (k + 1)..Len(ins) : ins[j].op # "register_button"
           ELSE focused = pre.focused

\* a build of two or more elements that took focus over from another element
C7_Witness ==
    /\ last.op = "build"
    /\ Len(last.buttons) >= 2
    /\ last.set_initial_focus
    /\ pre.focused # None
    /\ pre.focused # last.buttons[1]
    /\ focused = last.buttons[1]

\* ---- C8 ----
\* C8: after clear() every handle is unknown to neighborsOf and the focused
\* field is None; move_focus then returns None in every direction and the
\* graph stays cleared until a build or set_focus.
Cleared == neighbors = EmptyTable /\ focused = None

C8_ClearEmpties ==
    /\ last.op = "clear" =>
          /\ focused = None
          /\ \A h \in Handles \cup GridHandles \cup DOMAIN pre.neighbors :
                NeighborsOf(neighbors, h) = Unknown
          /\ \A d \in Directions : MoveTarget(neighbors, focused, d) = None
    /\ (last.op = "move_focus" /\ pre.neighbors = EmptyTable /\ pre.focused = None) =>
          last.result = None /\ Cleared

\* a directional move on a graph that was populated and then cleared
C8_Witness ==
    /\ last.op = "move_focus"
    /\ pre.neighbors = EmptyTable
    /\ pre.focused = None
    /\ focusedMark # {}
    /\ Cleared

\* ---- C9 ----
\* C9: after a Vertical build of n handles with initial focus on a cleared
\* graph, k consecutive move_focus(down) calls leave focus on h[min(k, n-1)];
\* a following run of j move_focus(up) calls leaves it on
\* h[max(min(k, n-1) - j, 0)]; move_focus(left) and move_focus(right) never
\* change focus.  For [A, B, C]: A, B, C, C, then B.
Min(a, b) == IF a < b THEN a ELSE b
Max(a, b) == IF a > b THEN a ELSE b

C9_VerticalTrace ==
    (built # NoBuild /\ built.layout = Vertical /\ built.cleared) =>
        LET h == built.buttons
            n == Len(h)
        IN /\ (run.fromBuild /\ run.dir \in {"none", "down"}) =>
                 focused = At(h, Min(run.calls, n - 1))
           /\ (run.dir = "up" /\ run.afterDowns >= 0) =>
                 focused = At(h, Max(Min(run.afterDowns, n - 1) - run.calls, 0))
           /\ (last.op = "move_focus" /\ last.direction \in {"left", "right"}) =>
                 focused = pre.focused /\ last.result = None

\* [A, B, C]: three downs (the third at the boundary), then one up, reach B
C9_Witness ==
    /\ built # NoBuild
    /\ built.layout = Vertical
    /\ Len(built.buttons) = 3
    /\ run.dir = "up"
    /\ run.afterDowns = 3
    /\ run.calls = 1
    /\ pre.focused = At(built.buttons, 2)
    /\ focused = At(built.buttons, 1)

\* ---- C10 ----
\* C10: in the graph of a build of n distinct handles on a cleared graph, a
\* run of move_focus calls in one direction moves focus at most n-1 times;
\* once a call of the run returned None the next one does too; following any
\* direction from any registered element ends within n-1 hops.
RECURSIVE Hop(_, _, _, _)
Hop(table, e, dir, k) ==
    IF k = 0 \/ e = None THEN e
    ELSE Hop(table, IF e \in DOMAIN table THEN table[e][dir] ELSE None, dir, k - 1)

C10_NoWraparound ==
    (built # NoBuild /\ built.cleared /\ ValidLayout(built.layout)) =>
        LET n == Len(built.buttons) IN
        /\ run.moved <= n - 1
        /\ run.blocked => MoveTarget(neighbors, focused, run.dir) = None
        /\ \A e \in DOMAIN neighbors, d \in Directions : Hop(neighbors, e, d, n) = None

\* seven elements in a column: six moves down, then the boundary
C10_Witness ==
    /\ built # NoBuild
    /\ built.cleared
    /\ Len(built.buttons) = 7
    /\ run.dir = "down"
    /\ run.moved = 6
    /\ run.blocked
    /\ focused = At(built.buttons, 6)

\* ---- C11 ----
\* C11: set_focus(handle) sets the focused field to handle also when handle
\* has no adjacency entry; then neighborsOf(handle) is Unknown, move_focus
\* returns None in every direction and leaves focused = handle, and no error
\* is raised.
C11_SetFocusUnregistered ==
    /\ last.op = "set_focus" =>
          /\ focused = last.entity
          /\ neighbors = pre.neighbors
          /\ ~panicked
    /\ (focused # None /\ focused \notin DOMAIN neighbors) =>
          /\ NeighborsOf(neighbors, focused) = Unknown
          /\ \A d \in Directions : MoveTarget(neighbors, focused, d) = None
    /\ (last.op = "move_focus" /\ pre.focused # None
          /\ pre.focused \notin DOMAIN pre.neighbors) =>
          /\ last.result = None
          /\ focused = pre.focused
          /\ ~panicked

\* a directional move while focus sits on a handle the populated graph lacks
C11_Witness ==
    /\ last.op = "move_focus"
    /\ pre.focused # None
    /\ pre.focused \notin DOMAIN pre.neighbors
    /\ DOMAIN pre.neighbors # {}
    /\ focused = pre.focused
    /\ last.result = None

\* ---- C14 ----
\* C14: the adjacency a build of distinct handles on a cleared graph produces
\* is symmetric: a.down = b iff b.up = a and a.right = b iff b.left = a; so
\* after a move_focus that moved, the opposite direction leads back to the
\* element focus came from.
Opposite(dir) ==
    IF dir = "up" THEN "down"
    ELSE IF dir = "down" THEN "up"
    ELSE IF dir = "left" THEN "right"
    ELSE "left"

C14_SymmetricAdjacency ==
    (built # NoBuild /\ built.cleared /\ ValidLayout(built.layout)) =>
        /\ \A a \in DOMAIN neighbors, b \in DOMAIN neighbors :
              /\ neighbors[a].down = b <=> neighbors[b].up = a
              /\ neighbors[a].right = b <=> neighbors[b].left = a
        /\ \A a \in DOMAIN neighbors, d \in Directions :
              neighbors[a][d] \in DOMAIN neighbors \cup {None}
        /\ (last.op = "move_focus" /\ last.result # None) =>
              MoveTarget(neighbors, focused, Opposite(last.direction)) = pre.focused

\* columns = 3, seven elements: a move down from h3 onto the short final row
C14_Witness ==
    /\ built # NoBuild
    /\ built.cleared
    /\ built.layout = Grid(3)
    /\ Len(built.buttons) = 7
    /\ last.op = "move_focus"
    /\ last.direction = "down"
    /\ pre.focused = At(built.buttons, 3)
    /\ focused = At(built.buttons, 6)
    /\ neighbors[focused].up = pre.focused

\* ---- C15 ----
\* C15: after a build with initial focus of n >= 1 distinct handles on a
\* cleared graph every element of the sequence is reachable from the first
\* one by directional moves.
RECURSIVE Reachable(_, _)
Reachable(table, S) ==
    LET step == S \cup {table[a][d] : a \in S \cap DOMAIN table, d \in Directions}
        next == step \ {None}
    IN IF next = S THEN S ELSE Reachable(table, next)

C15_AllReachable ==
    (built # NoBuild /\ built.cleared /\ ValidLayout(built.layout)) =>
        /\ Reachable(neighbors, {At(built.buttons, 0)}) = SeqRange(built.buttons)
        /\ (run.fromBuild /\ run.calls = 0) => focused = At(built.buttons, 0)

\* columns = 3, seven elements: focus walked from h0 to the last element h6
C15_Witness ==
    /\ built # NoBuild
    /\ built.cleared
    /\ built.layout = Grid(3)
    /\ Len(built.buttons) = 7
    /\ run.fromBuild
    /\ run.dir = "down"
    /\ run.moved = 2
    /\ focused = At(built.buttons, 6)

\* ---- C12 ----
\* C12: every run of setup_main_menu leaves the graph entirely replaced: its
\* keys are exactly the three buttons spawned by this run, linked play,
\* settings, quit as a Vertical list, focus is on play, and neither an entry
\* nor a neighbour nor the focused field names an entity of an earlier run
\* or one despawned by cleanup_main_menu.
MenuTable(b) ==
    [e \in {b[1], b[2], b[3]} |->
        IF e = b[1] THEN [up |-> None, down |-> b[2], left |-> None, right |-> None]
        ELSE IF e = b[2] THEN [up |-> b[1], down |-> b[3], left |-> None, right |-> None]
        ELSE [up |-> b[2], down |-> None, left |-> None, right |-> None]]

Named(table, foc) ==
    ((DOMAIN table) \cup {table[e][d] : e \in DOMAIN table, d \in Directions} \cup {foc})
        \ {None}

C12_SetupReplacesGraph ==
    last.op = "setup_main_menu" =>
        LET b == last.buttons
            earlier == 1..last.base
        IN /\ Cardinality(SeqRange(b)) = 3
           /\ DOMAIN neighbors = SeqRange(b)
           /\ neighbors = MenuTable(b)
           /\ focused = b[1]
           /\ Named(neighbors, focused) = SeqRange(b)
           /\ Named(neighbors, focused) \cap earlier = {}
           /\ Named(neighbors, focused) \subseteq menu.alive

\* a second setup over a graph still naming the despawned buttons of the first
C12_Witness ==
    /\ last.op = "setup_main_menu"
    /\ menu.setups = 2
    /\ DOMAIN pre.neighbors # {}
    /\ pre.focused # None
    /\ Named(pre.neighbors, pre.focused) \cap menu.alive = {}
    /\ focused = menu.buttons[1]

\* ---- C13 ----
\* C13: a navigation-input step never observes a partially built graph: the
\* table is empty and unfocused before the first setup, and afterwards it is
\* exactly the table of the latest completed build with focus on one of its
\* buttons; in particular what a move_focus call finds is of that form.
C13_NoPartialBuildObserved ==
    /\ IF menu.setups = 0
       THEN neighbors = EmptyTable /\ focused = None
       ELSE neighbors = MenuTable(menu.buttons) /\ focused \in SeqRange(menu.buttons)
    /\ last.op = "move_focus" =>
          IF menu.setups = 0
          THEN pre.neighbors = EmptyTable /\ pre.focused = None
          ELSE /\ pre.neighbors = MenuTable(menu.buttons)
               /\ pre.focused \in SeqRange(menu.buttons)

\* a navigation step that moved focus in the graph of the second setup
C13_Witness ==
    /\ last.op = "move_focus"
    /\ menu.setups = 2
    /\ last.result # None
    /\ pre.focused = menu.buttons[1]
    /\ focused = menu.buttons[2]

====
